---- MODULE Spec2Model ----
(***************************************************************************)
(* A model of the career-os extension's service worker (src/background.js): *)
(* the CRC-32 engine, the little-endian field encoders, the stored-method  *)
(* ZIP assembler, the WordprocessingML document builder and the message    *)
(* listener that wraps them.                                               *)
(*                                                                         *)
(* Representation.  A JavaScript string is a sequence of UTF-16 code units *)
(* (integers); a Uint8Array is a sequence of integers in 0..255.  A number *)
(* that takes part in bitwise arithmetic is a word <<hi, lo>> of value     *)
(* hi * 2^16 + lo with lo in 0..65535: the unsigned 32-bit results of the  *)
(* source (the CRC table, x >>> 0) do not fit the model checker's signed   *)
(* 32-bit integers, and the sign of hi keeps the difference between the    *)
(* int32 results of ^ and & and the uint32 results of >>>.                 *)
(***************************************************************************)
EXTENDS Integers, Sequences, FiniteSets, TLC

VARIABLES
    pc,          \* position of the operation under study
    bytes,       \* crc32: the argument
    crcOut,      \* crc32: the returned number (a word)
    escIn,       \* xmlEscape: the argument
    escaped,     \* xmlEscape: the returned string
    text,        \* coverLetterToDocxBytes: the argument
    docXml,      \* coverLetterToDocxBytes: the string documentXml
    fileEntries, \* makeZipStore: the argument
    zipIdx,      \* makeZipStore: the index of the entry the loop is at
    zipSt,       \* makeZipStore: localParts, centralParts, offset
    out,         \* makeZipStore: the returned buffer
    msg,         \* onMessage listener: the message received
    responses,   \* onMessage listener: the arguments of the sendResponse calls
    downloads,   \* the arguments of the chrome.downloads.download calls
    storage,     \* chrome.storage.local: the items backend and authToken
    awaited,     \* onMessage listener: what the operation it waits on was given
    dom,         \* content script: the ids of the children of <html>, in order
    pending,     \* content script: the MutationObserver has records to deliver
    history,     \* chrome.storage.local: the item careeros_history
    adds         \* content script: the addToHistory calls, each with its locals

vars == <<pc, bytes, crcOut, escIn, escaped, text, docXml, fileEntries, zipIdx, zipSt, out,
          msg, responses, downloads, storage, awaited, dom, pending, history, adds>>

crcVars  == <<bytes, crcOut>>
escVars  == <<escIn, escaped>>
docxVars == <<text, docXml>>
zipVars  == <<fileEntries, zipIdx, zipSt, out>>
listenerVars == <<msg, responses, downloads, storage, awaited>>
contentVars  == <<dom, pending, history, adds>>

None == "none"   \* a variable that holds nothing yet

\* the content script is not running
NoContent == dom = None /\ pending = None /\ history = None /\ adds = None

\* no message has been received
NoMessage ==
    /\ msg = None /\ responses = None /\ downloads = None
    /\ storage = None /\ awaited = None

----------------------------------------------------------------------------
(* Evaluation order.  The model checker passes an operator's arguments      *)
(* unevaluated, and inside a recursive operator evaluates them again at    *)
(* every use.  A loop of the source is therefore a recursion that hands    *)
(* its accumulator on as a value, by the idiom                             *)
(*     CHOOSE r \in {F(x) : x \in {v}} : TRUE        (= F(v), v first)     *)
(* and a long loop runs over blocks of 2^k indexes, halved at each level,  *)
(* so that the depth of the evaluation is logarithmic in its length.       *)

RECURSIVE Log2Ceil(_)
Log2Ceil(n) == IF n <= 1 THEN 0 ELSE 1 + Log2Ceil((n + 1) \div 2)

\* chunks[lo] \o chunks[lo + 1] \o ... over the indexes lo .. lo + 2^k - 1
\* that are <= n
RECURSIVE ConcatBlock(_, _, _, _)
ConcatBlock(chunks, n, lo, k) ==
    IF lo > n THEN <<>>
    ELSE IF k = 0 THEN chunks[lo]
    ELSE CHOOSE r \in
            { ConcatBlock(chunks, n, lo, j) \o ConcatBlock(chunks, n, lo + 2^j, j) :
                j \in {k - 1} }
            : TRUE

\* chunks[1] \o chunks[2] \o ... \o chunks[Len(chunks)]
Concat(chunks) ==
    CHOOSE r \in { ConcatBlock(c, Len(c), 1, Log2Ceil(Len(c))) : c \in {chunks} } : TRUE

----------------------------------------------------------------------------
(* Words and the bitwise operators of JavaScript                           *)

W16 == 2^16
W15 == 2^15

Num(n) == <<n \div W16, n % W16>>
Val(w) == w[1] * W16 + w[2]

ToInt32(w)  == <<((w[1] + W15) % W16) - W15, w[2]>>
ToUint32(w) == <<w[1] % W16, w[2]>>

RECURSIVE BitXor(_, _, _)
BitXor(a, b, n) ==
    IF n = 0 THEN 0
    ELSE (IF (a % 2) = (b % 2) THEN 0 ELSE 1) + 2 * BitXor(a \div 2, b \div 2, n - 1)

RECURSIVE BitAnd(_, _, _)
BitAnd(a, b, n) ==
    IF n = 0 THEN 0
    ELSE (IF (a % 2) = 1 /\ (b % 2) = 1 THEN 1 ELSE 0) + 2 * BitAnd(a \div 2, b \div 2, n - 1)

\* A table is compared with a constant table once, which makes the model
\* checker enumerate it; a table left as a rule is recomputed at every lookup.
Enumerated(t, other) == IF t = other THEN t ELSE t

XorNib == Enumerated([a \in 0..15, b \in 0..15 |-> BitXor(a, b, 4)],
                     [a \in 0..15, b \in 0..15 |-> -1])
AndNib == Enumerated([a \in 0..15, b \in 0..15 |-> BitAnd(a, b, 4)],
                     [a \in 0..15, b \in 0..15 |-> -1])

Xor16(a, b) ==
    XorNib[a % 16, b % 16]
    + 16 * XorNib[(a \div 16) % 16, (b \div 16) % 16]
    + 256 * XorNib[(a \div 256) % 16, (b \div 256) % 16]
    + 4096 * XorNib[a \div 4096, b \div 4096]

And16(a, b) ==
    AndNib[a % 16, b % 16]
    + 16 * AndNib[(a \div 16) % 16, (b \div 16) % 16]
    + 256 * AndNib[(a \div 256) % 16, (b \div 256) % 16]
    + 4096 * AndNib[a \div 4096, b \div 4096]

\* a ^ b : both operands ToInt32, the result an int32
JsXor(a, b) == ToInt32(<<Xor16(a[1] % W16, b[1] % W16), Xor16(a[2], b[2])>>)

\* a & b : both operands ToInt32, the result an int32
JsAnd(a, b) == ToInt32(<<And16(a[1] % W16, b[1] % W16), And16(a[2], b[2])>>)

\* a >>> k, 0 <= k < 32 : the operand ToUint32, the result a uint32
JsUshr(a, k) ==
    LET h == a[1] % W16
        l == a[2]
    IN  IF k < 16
        THEN <<h \div 2^k, (l \div 2^k) + (h % 2^k) * 2^(16 - k)>>
        ELSE <<0, h \div 2^(k - 16)>>

----------------------------------------------------------------------------
(* Strings.  Str turns a string literal of the source into code units.     *)

AsciiLow  == " !\"#$%&'()*+,-./0123456789:;<=>?@ABCDEFGHIJKLMNOPQRSTUVWXYZ[\\]^_"
AsciiHigh == "abcdefghijklmnopqrstuvwxyz{|}~"

AsciiCodes == {10} \cup (32..95) \cup (97..126)

CharAt(n) ==
    IF n = 10 THEN "\n"
    ELSE IF n < 96 THEN SubSeq(AsciiLow, n - 31, n - 31)
    ELSE SubSeq(AsciiHigh, n - 96, n - 96)

CodeOf == [c \in {CharAt(n) : n \in AsciiCodes} |-> CHOOSE n \in AsciiCodes : CharAt(n) = c]

Str(lit) == [i \in 1..Len(lit) |-> CodeOf[SubSeq(lit, i, i)]] \o <<>>

LF == 10
CR == 13

\* WhiteSpace and LineTerminator of ECMAScript: what trim() removes, \s matches
IsWhiteSpace(c) ==
    \/ c \in {9, 10, 11, 12, 13, 32, 160, 5760, 8232, 8233, 8239, 8287, 12288, 65279}
    \/ (c >= 8192 /\ c <= 8202)

\* str.trim()
trim(str) ==
    LET keep == {i \in 1..Len(str) : ~IsWhiteSpace(str[i])}
    IN  IF keep = {} THEN <<>>
        ELSE SubSeq(str, CHOOSE i \in keep : \A j \in keep : i <= j,
                         CHOOSE i \in keep : \A j \in keep : i >= j)

\* str.replace(/c/g, rep) for a one-character pattern c
ReplaceChar(str, c, rep) ==
    Concat([i \in 1..Len(str) |-> IF str[i] = c THEN rep ELSE <<str[i]>>])

\* the text with its CRLF pairs left as they are
ReplaceCrLfKept(str) == str

\* str.replace(/\r\n/g, "\n")
ReplaceCrLf(str) ==
    Concat([i \in 1..Len(str) |->
               IF str[i] = CR /\ i < Len(str) /\ str[i + 1] = LF THEN <<>> ELSE <<str[i]>>])

\* str.split("\n")
SplitLines(str) ==
    LET at == SelectSeq([i \in 1..Len(str) |-> i], LAMBDA i : str[i] = LF)
        k  == Len(at)
    IN  [j \in 1..(k + 1) |->
            SubSeq(str, IF j = 1 THEN 1 ELSE at[j - 1] + 1,
                        IF j = k + 1 THEN Len(str) ELSE at[j] - 1)]

----------------------------------------------------------------------------
(* CRC-32: src/background.js lines 32-51                                   *)

\* 0xedb88320
CrcPoly == <<60856, 33568>>

\* the inner loop of the table's initializer: c after turns k..7, then c >>> 0
RECURSIVE CrcTableEntry(_, _)
CrcTableEntry(c, k) ==
    IF k = 8 THEN JsUshr(c, 0)
    ELSE CrcTableEntry(
            IF Val(JsAnd(c, Num(1))) # 0
            THEN JsXor(CrcPoly, JsUshr(c, 1))
            ELSE JsUshr(c, 1),
            k + 1)

\* the outer loop: table[i] is assigned for the 2^k indexes from lo on
RECURSIVE CrcTableFill(_, _, _)
CrcTableFill(table, lo, k) ==
    IF k = 0 THEN [table EXCEPT ![lo] = CrcTableEntry(Num(lo), 0)]
    ELSE CHOOSE r \in
            { CrcTableFill(t, lo + 2^(k - 1), k - 1) : t \in {CrcTableFill(table, lo, k - 1)} }
            : TRUE

\* new Uint32Array(256), filled by the loop
CRC_TABLE == CrcTableFill([i \in 0..255 |-> Num(0)], 0, 8)

\* one turn of the loop of crc32
CrcStep(crc, b) ==
    JsXor(JsUshr(crc, 8), CRC_TABLE[Val(JsAnd(JsXor(crc, Num(b)), Num(255)))])

\* the loop of crc32 over the 2^k bytes of bs from index lo on
RECURSIVE CrcFold(_, _, _, _)
CrcFold(crc, bs, lo, k) ==
    IF lo > Len(bs) THEN crc
    ELSE IF k = 0 THEN CrcStep(crc, bs[lo])
    ELSE CHOOSE r \in
            { CrcFold(c, bs, lo + 2^(k - 1), k - 1) : c \in {CrcFold(crc, bs, lo, k - 1)} }
            : TRUE

\* crc32 as it would be without the final >>> 0: the int32 that ^ leaves
crc32Signed(bs) ==
    JsXor(CrcFold(JsXor(Num(0), Num(-1)), bs, 1, Log2Ceil(Len(bs))), Num(-1))

crc32(bs) ==
    JsUshr(JsXor(CrcFold(JsXor(Num(0), Num(-1)), bs, 1, Log2Ceil(Len(bs))), Num(-1)), 0)

----------------------------------------------------------------------------
(* Field encoders, UTF-8, concatenation: src/background.js lines 53-73     *)

u16(n) ==
    << Val(JsAnd(n, Num(255))),
       Val(JsAnd(JsUshr(n, 8), Num(255))) >>

u32(n) ==
    << Val(JsAnd(n, Num(255))),
       Val(JsAnd(JsUshr(n, 8), Num(255))),
       Val(JsAnd(JsUshr(n, 16), Num(255))),
       Val(JsAnd(JsUshr(n, 24), Num(255))) >>

IsHighSurrogate(c) == c >= 55296 /\ c <= 56319    \* 0xD800..0xDBFF
IsLowSurrogate(c)  == c >= 56320 /\ c <= 57343    \* 0xDC00..0xDFFF

\* U+FFFD, what TextEncoder writes for a surrogate that has no partner
Utf8Replacement == <<239, 191, 189>>

\* the bytes TextEncoder writes for the code unit at str[i]
Utf8At(str, i) ==
    LET c == str[i]
    IN  IF c < 128 THEN <<c>>
        ELSE IF c < 2048 THEN <<192 + (c \div 64), 128 + (c % 64)>>
        ELSE IF IsHighSurrogate(c)
        THEN IF i < Len(str) /\ IsLowSurrogate(str[i + 1])
             THEN LET hi10 == c - 55296
                      lo10 == str[i + 1] - 56320
                      \* code point - 0x10000 = hi10 * 2^10 + lo10
                      top == (hi10 \div 64) + 1      \* bits 16..20
                  IN  << 240 + (top \div 4),
                         128 + (top % 4) * 16 + ((hi10 \div 4) % 16),
                         128 + (hi10 % 4) * 16 + (lo10 \div 64),
                         128 + (lo10 % 64) >>
             ELSE Utf8Replacement
        ELSE IF IsLowSurrogate(c)
        THEN IF i > 1 /\ IsHighSurrogate(str[i - 1]) THEN <<>> ELSE Utf8Replacement
        ELSE <<224 + (c \div 4096), 128 + ((c \div 64) % 64), 128 + (c % 64)>>

encodeUtf8(str) == Concat([i \in 1..Len(str) |-> Utf8At(str, i)])

\* every chunk is copied to the offset where the chunk before it ended
concatUint8(chunks) == Concat(chunks)

----------------------------------------------------------------------------
(* makeZipStore: src/background.js lines 75-152                            *)

LocalSig   == 67324752     \* 0x04034b50
CentralSig == 33639248     \* 0x02014b50
EocdSig    == 101010256    \* 0x06054b50
ZipVersion == 20

\* the state of makeZipStore before its loop
ZipStart == [localParts |-> <<>>, centralParts |-> <<>>, offset |-> 0]

\* the local header with compression method 8 (deflate) announced
localHeaderDeflate(crc, size, nameLen) ==
    u32(Num(LocalSig))
    \o u16(Num(ZipVersion))
    \o u16(Num(0))
    \o u16(Num(8))
    \o u16(Num(0))
    \o u16(Num(0))
    \o u32(crc)
    \o u32(Num(size))
    \o u32(Num(size))
    \o u16(Num(nameLen))
    \o u16(Num(0))

localHeader(crc, size, nameLen) ==
    u32(Num(LocalSig))
    \o u16(Num(ZipVersion))   \* version needed
    \o u16(Num(0))            \* flags
    \o u16(Num(0))            \* compression 0 = store
    \o u16(Num(0))            \* mod time
    \o u16(Num(0))            \* mod date
    \o u32(crc)
    \o u32(Num(size))
    \o u32(Num(size))
    \o u16(Num(nameLen))
    \o u16(Num(0))            \* extra len

centralHeader(crc, size, nameLen, offset) ==
    u32(Num(CentralSig))
    \o u16(Num(ZipVersion))   \* version made by
    \o u16(Num(ZipVersion))   \* version needed
    \o u16(Num(0))
    \o u16(Num(0))
    \o u16(Num(0))
    \o u16(Num(0))
    \o u32(crc)
    \o u32(Num(size))
    \o u32(Num(size))
    \o u16(Num(nameLen))
    \o u16(Num(0))            \* extra
    \o u16(Num(0))            \* comment
    \o u16(Num(0))            \* disk start
    \o u16(Num(0))            \* internal attrs
    \o u32(Num(0))            \* external attrs
    \o u32(Num(offset))

\* the loop body with the offset advanced by the name's length in code
\* units instead of its length in bytes
ZipAddEntryNameUnits(st, f) ==
    LET nameBytes == encodeUtf8(f.name)
        data      == f.data
        crc       == crc32(data)
        size      == Len(data)
        lh        == localHeader(crc, size, Len(nameBytes))
        ch        == centralHeader(crc, size, Len(nameBytes), st.offset)
    IN  [ localParts   |-> st.localParts \o <<lh, nameBytes, data>>,
          centralParts |-> st.centralParts \o <<ch, nameBytes>>,
          offset       |-> st.offset + Len(lh) + Len(f.name) + Len(data) ]

\* one turn of the loop over fileEntries
ZipAddEntry(st, f) ==
    LET nameBytes == encodeUtf8(f.name)
        data      == f.data
        crc       == crc32(data)
        size      == Len(data)
        lh        == localHeader(crc, size, Len(nameBytes))
        ch        == centralHeader(crc, size, Len(nameBytes), st.offset)
    IN  [ localParts   |-> st.localParts \o <<lh, nameBytes, data>>,
          centralParts |-> st.centralParts \o <<ch, nameBytes>>,
          offset       |-> st.offset + Len(lh) + Len(nameBytes) + Len(data) ]

eocdRecord(fileCount, centralLen, centralStart) ==
    u32(Num(EocdSig))
    \o u16(Num(0))
    \o u16(Num(0))
    \o u16(Num(fileCount))
    \o u16(Num(fileCount))
    \o u32(Num(centralLen))
    \o u32(Num(centralStart))
    \o u16(Num(0))            \* comment length

\* the end of makeZipStore with the entries counted as central parts (a
\* header and a name for each entry)
ZipEndCountParts(st, fileCount) ==
    LET centralStart == st.offset
        centralData  == concatUint8(st.centralParts)
        eocd         == eocdRecord(Len(st.centralParts), Len(centralData), centralStart)
    IN  concatUint8(st.localParts \o <<centralData, eocd>>)

\* what follows the loop: the central directory, the EOCD, the final buffer
ZipEnd(st, fileCount) ==
    LET centralStart == st.offset
        centralData  == concatUint8(st.centralParts)
        eocd         == eocdRecord(fileCount, Len(centralData), centralStart)
    IN  concatUint8(st.localParts \o <<centralData, eocd>>)

\* the loop over the entries fs, from entry i on
RECURSIVE ZipLoop(_, _, _)
ZipLoop(fs, i, st) ==
    IF i > Len(fs) THEN st
    ELSE CHOOSE r \in { ZipLoop(fs, i + 1, s) : s \in {ZipAddEntry(st, fs[i])} } : TRUE

makeZipStore(fs) == ZipEnd(ZipLoop(fs, 1, ZipStart), Len(fs))

----------------------------------------------------------------------------
(* xmlEscape, coverLetterToDocxBytes: src/background.js lines 154-205      *)

Amp  == 38
Lt   == 60
Gt   == 62
Quot == 34
Apos == 39

\* xmlEscape with the & replacement applied last instead of first
xmlEscapeAmpLast(s) ==
    ReplaceChar(
      ReplaceChar(
        ReplaceChar(
          ReplaceChar(
            ReplaceChar(s, Lt, Str("&lt;")),
            Gt, Str("&gt;")),
          Quot, Str("&quot;")),
        Apos, Str("&apos;")),
      Amp, Str("&amp;"))

xmlEscape(s) ==
    ReplaceChar(
      ReplaceChar(
        ReplaceChar(
          ReplaceChar(
            ReplaceChar(s, Amp, Str("&amp;")),
            Lt, Str("&lt;")),
          Gt, Str("&gt;")),
        Quot, Str("&quot;")),
      Apos, Str("&apos;"))

\* a text that the caller did not pass (undefined, null): no code unit is
\* negative, so this is no string
Absent == <<-1>>

\* String(text || "")
TextOrEmpty(t) == IF t = Absent THEN <<>> ELSE t

ParaOpen  == Str("<w:p><w:r><w:t xml:space=\"preserve\">")
ParaClose == Str("</w:t></w:r></w:p>")

\* the callback with no paragraph at all for a blank line
ParagraphSkipBlank(line) ==
    IF trim(line) = <<>>
    THEN <<>>
    ELSE ParaOpen \o xmlEscape(line) \o ParaClose

\* the callback of lines.map
Paragraph(line) ==
    IF trim(line) = <<>>
    THEN ParaOpen \o ParaClose
    ELSE ParaOpen \o xmlEscape(line) \o ParaClose

DocLines(t) == SplitLines(ReplaceCrLf(TextOrEmpty(t)))

Paras(lines) == Concat([j \in 1..Len(lines) |-> Paragraph(lines[j])])

DocHead ==
    Str("<?xml version=\"1.0\" encoding=\"UTF-8\" standalone=\"yes\"?>\n")
    \o Str("<w:document xmlns:w=\"http://schemas.openxmlformats.org/wordprocessingml/2006/main\">\n")
    \o Str("  <w:body>\n")
    \o Str("    ")

DocTail ==
    Str("\n")
    \o Str("    <w:sectPr/>\n")
    \o Str("  </w:body>\n")
    \o Str("</w:document>")

documentXml(t) == DocHead \o Paras(DocLines(t)) \o DocTail

contentTypesXml ==
    Str("<?xml version=\"1.0\" encoding=\"UTF-8\" standalone=\"yes\"?>\n")
    \o Str("<Types xmlns=\"http://schemas.openxmlformats.org/package/2006/content-types\">\n")
    \o Str("  <Default Extension=\"rels\" ContentType=\"application/vnd.openxmlformats-package.relationships+xml\"/>\n")
    \o Str("  <Default Extension=\"xml\" ContentType=\"application/xml\"/>\n")
    \o Str("  <Override PartName=\"/word/document.xml\" ContentType=\"application/vnd.openxmlformats-officedocument.wordprocessingml.document.main+xml\"/>\n")
    \o Str("</Types>")

relsXml ==
    Str("<?xml version=\"1.0\" encoding=\"UTF-8\" standalone=\"yes\"?>\n")
    \o Str("<Relationships xmlns=\"http://schemas.openxmlformats.org/package/2006/relationships\">\n")
    \o Str("  <Relationship Id=\"rId1\" Type=\"http://schemas.openxmlformats.org/officeDocument/2006/relationships/officeDocument\" Target=\"word/document.xml\"/>\n")
    \o Str("</Relationships>")

\* the array files with the document body first
DocxFilesBodyFirst(xml) ==
    << [name |-> Str("word/document.xml"),   data |-> encodeUtf8(xml)],
       [name |-> Str("[Content_Types].xml"), data |-> encodeUtf8(contentTypesXml)],
       [name |-> Str("_rels/.rels"),         data |-> encodeUtf8(relsXml)] >>

\* the array files of coverLetterToDocxBytes, given its string documentXml
DocxFiles(xml) ==
    << [name |-> Str("[Content_Types].xml"), data |-> encodeUtf8(contentTypesXml)],
       [name |-> Str("_rels/.rels"),         data |-> encodeUtf8(relsXml)],
       [name |-> Str("word/document.xml"),   data |-> encodeUtf8(xml)] >>

coverLetterToDocxBytes(t) == makeZipStore(DocxFiles(documentXml(t)))

----------------------------------------------------------------------------
(* uint8ToBase64, sanitizeFilename: src/background.js lines 207-221        *)

Base64Chunk == 32768      \* 0x8000

Min(a, b) == IF a <= b THEN a ELSE b

\* the string s of uint8ToBase64: String.fromCharCode gives each byte the
\* code unit of the same number, one chunk of the array after another
BinaryString(u8) ==
    Concat([c \in 1..((Len(u8) + Base64Chunk - 1) \div Base64Chunk) |->
               SubSeq(u8, (c - 1) * Base64Chunk + 1, Min(c * Base64Chunk, Len(u8)))])

Base64Alphabet ==
    Str("ABCDEFGHIJKLMNOPQRSTUVWXYZabcdefghijklmnopqrstuvwxyz0123456789+/")

Base64Pad == 61           \* =

\* the four characters for the g-th group of three code units of s
Base64Group(s, g) ==
    LET i  == 3 * g - 2
        b1 == s[i]
        b2 == IF i + 1 <= Len(s) THEN s[i + 1] ELSE 0
        b3 == IF i + 2 <= Len(s) THEN s[i + 2] ELSE 0
    IN  << Base64Alphabet[(b1 \div 4) + 1],
           Base64Alphabet[((b1 % 4) * 16 + (b2 \div 16)) + 1],
           IF i + 1 <= Len(s) THEN Base64Alphabet[((b2 % 16) * 4 + (b3 \div 64)) + 1]
                              ELSE Base64Pad,
           IF i + 2 <= Len(s) THEN Base64Alphabet[(b3 % 64) + 1]
                              ELSE Base64Pad >>

\* btoa(s) for a string of code units below 256
btoa(s) == Concat([g \in 1..((Len(s) + 2) \div 3) |-> Base64Group(s, g)])

uint8ToBase64(u8) == btoa(BinaryString(u8))

DefaultFilename == Str("cover_letter.docx")

\* a string that is truthy: passed, and not empty
Truthy(v) == v # Absent /\ v # <<>>

\* < > : " / \ | ? * and the control characters 0..31
ForbiddenInFilename == {60, 62, 58, 34, 47, 92, 124, 63, 42} \cup 0..31

Underscore == 95

\* .replace(/\s+/g, " ")
CollapseWhiteSpace(s) ==
    Concat([i \in 1..Len(s) |->
               IF ~IsWhiteSpace(s[i]) THEN <<s[i]>>
               ELSE IF i > 1 /\ IsWhiteSpace(s[i - 1]) THEN <<>>
               ELSE <<32>>])

sanitizeFilename(name) ==
    LET given    == IF Truthy(name) THEN name ELSE DefaultFilename
        replaced == [i \in 1..Len(given) |->
                        IF given[i] \in ForbiddenInFilename THEN Underscore
                        ELSE given[i]]
    IN  trim(CollapseWhiteSpace(replaced))

----------------------------------------------------------------------------
(* Inputs                                                                  *)

RECURSIVE SeqsUpTo(_, _)
SeqsUpTo(S, n) ==
    IF n = 0 THEN {<<>>}
    ELSE LET shorter == SeqsUpTo(S, n - 1)
         IN  shorter \cup {Append(q, x) : q \in {r \in shorter : Len(r) = n - 1}, x \in S}

----------------------------------------------------------------------------
(* crc32 applied to byte sequences                                         *)

MaxCrcLen == 3
CrcBytes == {0, 1, 49, 128, 255}

\* the ASCII bytes of "123456789"
CheckVector == Str("123456789")

InitCrc ==
    /\ NoMessage /\ NoContent
    /\ pc = "crc_call"
    /\ bytes \in SeqsUpTo(CrcBytes, MaxCrcLen) \cup {CheckVector}
    /\ crcOut = None
    /\ escIn = None /\ escaped = None
    /\ text = None /\ docXml = None
    /\ fileEntries = None /\ zipIdx = None /\ zipSt = None /\ out = None

CallCrc32 ==
    /\ pc = "crc_call"
    /\ crcOut' = crc32(bytes)
    /\ pc' = "crc_done"
    /\ UNCHANGED <<contentVars, bytes, escVars, docxVars, zipVars, listenerVars>>

NextCrc == CallCrc32

SpecCrc == InitCrc /\ [][NextCrc]_vars

----------------------------------------------------------------------------
(* xmlEscape applied to strings                                            *)

MaxEscLen == 3
EscUnits == {Amp, Lt, Gt, Quot, Apos, 97, 59}     \* & < > " ' a ;

InitEscape ==
    /\ NoMessage /\ NoContent
    /\ pc = "esc_call"
    /\ escIn \in SeqsUpTo(EscUnits, MaxEscLen) \cup {Str("&amp;"), Str("a<b>&\"c'")}
    /\ escaped = None
    /\ bytes = None /\ crcOut = None
    /\ text = None /\ docXml = None
    /\ fileEntries = None /\ zipIdx = None /\ zipSt = None /\ out = None

CallXmlEscape ==
    /\ pc = "esc_call"
    /\ escaped' = xmlEscape(escIn)
    /\ pc' = "esc_done"
    /\ UNCHANGED <<contentVars, escIn, crcVars, docxVars, zipVars, listenerVars>>

NextEscape == CallXmlEscape

SpecEscape == InitEscape /\ [][NextEscape]_vars

----------------------------------------------------------------------------
(* makeZipStore, one turn of its loop at a time                            *)

MaxEntries == 3

\* "a" and "e-acute euro": 1 and 5 bytes of UTF-8
ZipNames == { <<97>>, <<233, 8364>> }
\* no data, one zero byte, and data that holds an EOCD signature
ZipDatas == { <<>>, <<0>>, <<80, 75, 5, 6, 255>> }

EntryPool == [name : ZipNames, data : ZipDatas]

ZipEntry ==
    /\ pc = "zip_loop"
    /\ zipIdx <= Len(fileEntries)
    /\ zipSt' = ZipAddEntry(zipSt, fileEntries[zipIdx])
    /\ zipIdx' = zipIdx + 1
    /\ UNCHANGED <<contentVars, pc, fileEntries, out, crcVars, escVars, docxVars, listenerVars>>

ZipFinish ==
    /\ pc = "zip_loop"
    /\ zipIdx > Len(fileEntries)
    /\ out' = ZipEnd(zipSt, Len(fileEntries))
    /\ pc' = "zip_done"
    /\ UNCHANGED <<contentVars, fileEntries, zipIdx, zipSt, crcVars, escVars, docxVars, listenerVars>>

InitZip ==
    /\ NoMessage /\ NoContent
    /\ pc = "zip_loop"
    /\ fileEntries \in SeqsUpTo(EntryPool, MaxEntries)
    /\ zipIdx = 1
    /\ zipSt = ZipStart
    /\ out = None
    /\ bytes = None /\ crcOut = None
    /\ escIn = None /\ escaped = None
    /\ text = None /\ docXml = None

NextZip == ZipEntry \/ ZipFinish

SpecZip == InitZip /\ [][NextZip]_vars

----------------------------------------------------------------------------
(* makeZipStore applied to entries that do not fit the fields of the       *)
(* format: u16 (lines 53-55) keeps the low 16 bits of a name length        *)

\* the first name length that a 16-bit field cannot hold
NameLimit == 65536

\* euro signs, three bytes of UTF-8 each: with LongNameUnits of them the
\* name has NameLimit + 2 bytes
LongNameUnits == 21846

LongName == [i \in 1..LongNameUnits |-> 8364] \o <<>>

OverflowLists ==
    SeqsUpTo(EntryPool, MaxEntries) \cup { <<[name |-> LongName, data |-> <<>>]>> }

InitOverflow ==
    /\ NoMessage /\ NoContent
    /\ pc = "zip_call"
    /\ fileEntries \in OverflowLists
    /\ zipIdx = None
    /\ zipSt = None
    /\ out = None
    /\ bytes = None /\ crcOut = None
    /\ escIn = None /\ escaped = None
    /\ text = None /\ docXml = None

\* the whole call
CallMakeZipStore ==
    /\ pc = "zip_call"
    /\ out' = makeZipStore(fileEntries)
    /\ pc' = "zip_done"
    /\ UNCHANGED <<contentVars, fileEntries, zipIdx, zipSt, crcVars, escVars, docxVars, listenerVars>>

NextOverflow == CallMakeZipStore

SpecOverflow == InitOverflow /\ [][NextOverflow]_vars

----------------------------------------------------------------------------
(* coverLetterToDocxBytes applied to texts                                 *)

MaxTextLen == 3
TextUnits == {97, 32, CR, LF}      \* a, space, CR, LF

SampleTexts ==
    { Str("Hello\n\nWorld"),
      Str("Dear Hiring Manager,\n\nSincerely,\nA. Candidate"),
      Str("R&D <caf") \o <<233>> \o Str(">") \o <<CR, LF>> \o Str(" \n") }

Texts == SeqsUpTo(TextUnits, MaxTextLen) \cup SampleTexts \cup {Absent}

InitDocx ==
    /\ NoMessage /\ NoContent
    /\ pc = "docx_call"
    /\ text \in Texts
    /\ docXml = None
    /\ fileEntries = None /\ zipIdx = None /\ zipSt = None /\ out = None
    /\ bytes = None /\ crcOut = None
    /\ escIn = None /\ escaped = None

\* coverLetterToDocxBytes up to its call of makeZipStore(files)
DocxBuild ==
    /\ pc = "docx_call"
    /\ docXml' = documentXml(text)
    /\ fileEntries' = DocxFiles(docXml')
    /\ zipIdx' = 1
    /\ zipSt' = ZipStart
    /\ pc' = "zip_loop"
    /\ UNCHANGED <<contentVars, text, out, crcVars, escVars, listenerVars>>

NextDocx == DocxBuild \/ ZipEntry \/ ZipFinish

SpecDocx == InitDocx /\ [][NextDocx]_vars

----------------------------------------------------------------------------
(* The chrome.runtime.onMessage listener: src/background.js lines 223-352. *)
(* The listener runs from the arrival of a message to its first wait in    *)
(* one step; a download's callback, and the settling of each operation    *)
(* that the listener awaits, are steps of their own.  An awaited operation *)
(* resolves or rejects; a rejection, like a call that throws, is answered  *)
(* by the catch clause.                                                    *)

MessageTypes ==
    {"CO_SET_AUTH", "CO_API", "DOWNLOAD_BLOB_URL", "CO_DOWNLOAD_COVER_LETTER_DOCX"}

\* a value that is neither undefined nor a string: a number
NotAString == <<-2>>

\* typeof v === "string"
IsString(v) == v # Absent /\ v # NotAString

\* !!saveAs, for saveAs one of undefined, true, false
ToBoolean(v) == v = "true"

DocxMime ==
    Str("application/vnd.openxmlformats-officedocument.wordprocessingml.document")

\* the text of the letter taken without .trim()
CoverLetterTextUntrimmed(t) == TextOrEmpty(t)

\* const cl = String(text || "").trim()
CoverLetterText(t) == trim(TextOrEmpty(t))

\* what chrome.downloads.download passes to its callback
DownloadIds == {1, 2}
LastErrors == {"Download canceled by the user"}

\* the values of saveAs in a payload
SaveAsValues == {"undefined", "true", "false"}

BlobMessages ==
    { [type |-> "DOWNLOAD_BLOB_URL",
       payload |-> [url |-> u, filename |-> f, saveAs |-> s]] :
         u \in {Absent, <<>>, NotAString, Str("blob:https://jobs.example/1")},
         f \in {Absent, <<>>, Str("resume.pdf")},
         s \in SaveAsValues }

LetterTexts ==
    { Absent, <<>>, Str("   "), <<32, LF, 9, CR, LF>>,
      Str("Hi"), Str(" Dear A & B,") \o <<CR, LF, CR, LF>> \o Str("Bye \n"),
      Str("a\n \nb"), <<55357, 97>> }

LetterFilenames ==
    { Absent, <<>>, Str("a/b:c?.docx"), Str("  my   letter") \o <<9>> \o Str(".docx ") }

LetterMessages ==
    { [type |-> "CO_DOWNLOAD_COVER_LETTER_DOCX",
       payload |-> [text |-> t, filename |-> f, saveAs |-> s]] :
         t \in LetterTexts, f \in LetterFilenames, s \in {"undefined", "true"} }

DEFAULT_BACKEND == Str("https://career-os.onrender.com")

\* str.replace(/\/$/, "")
StripSlash(str) ==
    IF Len(str) > 0 /\ str[Len(str)] = 47 THEN SubSeq(str, 1, Len(str) - 1) ELSE str

\* getConfig, given the items that chrome.storage.local.get returned
getConfig(items) ==
    [backend   |-> StripSlash(IF Truthy(items.backend)
                              THEN items.backend ELSE DEFAULT_BACKEND),
     authToken |-> trim(IF Truthy(items.authToken) THEN items.authToken ELSE <<>>)]

\* new URLSearchParams(query).toString() for an object of string entries:
\* the UTF-8 bytes of names and values, space as +, every byte other than
\* a letter, a digit and * - . _ as %HH
URLSearchParams(query) ==
    LET Hex(d)   == IF d < 10 THEN 48 + d ELSE 55 + d
        Plain(b) == \/ b \in 48..57 \/ b \in 65..90 \/ b \in 97..122
                    \/ b \in {42, 45, 46, 95}
        Byte(b)  == IF b = 32 THEN <<43>>
                    ELSE IF Plain(b) THEN <<b>>
                    ELSE <<37, Hex(b \div 16), Hex(b % 16)>>
        Enc(str) == LET u == encodeUtf8(str)
                    IN  Concat([i \in 1..Len(u) |-> Byte(u[i])])
    IN  Concat([i \in 1..Len(query) |->
                   (IF i > 1 THEN <<38>> ELSE <<>>)
                   \o Enc(query[i][1]) \o <<61>> \o Enc(query[i][2])])

\* buildUrl; p is the payload, whose query may be missing
buildUrl(base, path, p) ==
    LET cleanBase == StripSlash(IF Truthy(base) THEN base ELSE DEFAULT_BACKEND)
        cleanPath == IF Len(path) > 0 /\ path[1] = 47 THEN path ELSE <<47>> \o path
        qs        == IF "query" \in DOMAIN p
                     THEN <<63>> \o URLSearchParams(p.query) ELSE <<>>
    IN  cleanBase \o cleanPath \o qs

\* str.toLowerCase(), for the letters A..Z
toLowerCase(str) ==
    [i \in 1..Len(str) |-> IF str[i] \in 65..90 THEN str[i] + 32 ELSE str[i]]

\* str.includes(pat)
includes(str, pat) ==
    \E i \in 1..(Len(str) - Len(pat) + 1) : SubSeq(str, i, i + Len(pat) - 1) = pat

\* headers.set(name, value) on headers held as <<lower-case name, value>> pairs
HeadersSet(headers, name, value) ==
    {h \in headers : h[1] # toLowerCase(name)} \cup {<<toLowerCase(name), value>>}

\* the header names that new Headers(init) accepts: letters, digits and -
HeaderNameOk(name) ==
    /\ Len(name) > 0
    /\ \A i \in 1..Len(name) :
          name[i] \in (48..57) \cup (65..90) \cup (97..122) \cup {45}

\* what an awaited operation that rejects, or a call that throws, hands to
\* the catch clause, as String(e)
Thrown ==
    { "TypeError: Failed to fetch",
      "Error: QUOTA_BYTES quota exceeded",
      "SyntaxError: Unexpected token < in JSON at position 0" }

\* line 347
CatchResponse(e) == [ok |-> FALSE, status |-> 0, error |-> e]

\* the items backend and authToken that chrome.storage.local may hold
Storages ==
    { [backend |-> Absent, authToken |-> Absent],
      [backend |-> Str("http://127.0.0.1:8000/"), authToken |-> Str(" t0 ")] }

AuthMessages ==
    { [type |-> "CO_SET_AUTH", payload |-> [token |-> t, backend |-> b]] :
        t \in {Absent, NotAString, <<>>, Str(" t1 ")},
        b \in {Absent, NotAString, Str("  "), Str(" https://api.example/ ")} }

\* payloads with and without query, json and headers; a path that is
\* missing, empty, not a string, with and without its leading slash
ApiMessages ==
    LET paths   == {Absent, <<>>, NotAString, Str("/v1/jobs"), Str("v1/jobs")}
        query   == << <<Str("q"), Str("a b&c")>>, <<Str("page"), Str("2")>> >>
        headers == { << <<Str("Content-Type"), Str("text/plain")>> >>,
                     << <<Str("X-Trace"), Str("1")>> >>,
                     << <<Str("bad name"), Str("1")>> >> }
    IN  { [type |-> "CO_API", payload |-> [path |-> p]] : p \in paths }
        \cup { [type |-> "CO_API",
                payload |-> [path |-> p, method |-> "POST", query |-> query,
                             json |-> j, headers |-> h]] :
                 p \in {Str("/v1/jobs")}, j \in {Absent, Str("{}")}, h \in headers }
        \cup { [type |-> "CO_API",
                payload |-> [path |-> Str("v1/jobs"), query |-> <<>>,
                             json |-> Str("x")]] }

\* what fetch resolves to: ok, status and the content-type header (null
\* when the response has none)
FetchResults ==
    { [ok |-> s = 200, status |-> s, contentType |-> c] :
        s \in {200, 404},
        c \in {Absent, Str("Application/JSON; charset=utf-8"), Str("text/html")} }

\* a message without a type, and one of a type that the listener ignores
OtherMessages ==
    { [type |-> "", payload |-> Absent], [type |-> "PING", payload |-> Absent] }

Messages ==
    AuthMessages \cup ApiMessages \cup BlobMessages \cup LetterMessages \cup OtherMessages

\* coverLetterToDocxBytes has not been called: no argument, no buffer
NotCalled == <<-3>>

\* the listener has not awaited anything yet
NoAwait == [nothing |-> TRUE]

InitListener ==
    /\ pc = "listen"
    /\ msg \in Messages
    /\ responses = <<>>
    /\ downloads = <<>>
    \* only the CO_SET_AUTH and CO_API branches write or read the storage
    /\ storage \in IF msg.type \in {"CO_SET_AUTH", "CO_API"}
                   THEN Storages
                   ELSE {[backend |-> Absent, authToken |-> Absent]}
    /\ awaited = NoAwait
    /\ NoContent
    /\ bytes = None /\ crcOut = None
    /\ escIn = None /\ escaped = None
    /\ text = NotCalled /\ docXml = None
    /\ fileEntries = None /\ zipIdx = None /\ zipSt = None /\ out = NotCalled

\* line 226 and line 345: no type, or a type the listener does not know
IgnoreMessage ==
    /\ pc = "listen"
    /\ msg.type \notin MessageTypes
    /\ pc' = "returned"
    /\ UNCHANGED <<contentVars, msg, storage, awaited, responses, downloads, crcVars, escVars, docxVars, zipVars>>

\* a rejection that no catch clause answers
AwaitThrowsUncaught ==
    /\ pc \in {"set_wait", "cfg_wait", "fetch_wait", "body_wait"}
    /\ pc' = "returned"
    /\ UNCHANGED <<contentVars, msg, storage, awaited, responses, downloads,
                   crcVars, escVars, docxVars, zipVars>>

\* lines 229-246, up to the await of chrome.storage.local.set
SetAuth ==
    /\ pc = "listen"
    /\ msg.type = "CO_SET_AUTH"
    /\ LET token   == msg.payload.token
           backend == msg.payload.backend
           \* a key that toSave does not hold is Absent
           toSave  == [backend   |-> IF IsString(backend) /\ trim(backend) # <<>>
                                     THEN StripSlash(trim(backend)) ELSE Absent,
                       authToken |-> IF IsString(token) THEN trim(token) ELSE Absent]
       IN  IF toSave.backend = Absent /\ toSave.authToken = Absent
           THEN /\ responses' = Append(responses, [ok |-> TRUE])
                /\ awaited' = awaited
                /\ pc' = "returned"
           ELSE /\ awaited' = toSave
                /\ responses' = responses
                /\ pc' = "set_wait"
    /\ UNCHANGED <<contentVars, msg, storage, downloads, crcVars, escVars, docxVars, zipVars>>

\* chrome.storage.local.set(toSave) has resolved: lines 241-245
StorageSet ==
    /\ pc = "set_wait"
    /\ storage' = [k \in {"backend", "authToken"} |->
                      IF awaited[k] = Absent THEN storage[k] ELSE awaited[k]]
    /\ responses' = Append(responses, [ok |-> TRUE])
    /\ pc' = "returned"
    /\ UNCHANGED <<contentVars, msg, awaited, downloads, crcVars, escVars, docxVars, zipVars>>

\* lines 250-267, up to the await of getConfig()
ApiProxy ==
    /\ pc = "listen"
    /\ msg.type = "CO_API"
    /\ IF ~Truthy(msg.payload.path) \/ ~IsString(msg.payload.path)
       THEN /\ responses' = Append(responses,
                                   [ok |-> FALSE, status |-> 0,
                                    data |-> [error |-> "Missing path"]])
            /\ pc' = "returned"
       ELSE /\ responses' = responses
            /\ pc' = "cfg_wait"
    /\ UNCHANGED <<contentVars, msg, storage, awaited, downloads, crcVars, escVars, docxVars, zipVars>>

\* getConfig() has resolved: lines 267-284, up to the await of fetch
ConfigRead ==
    /\ pc = "cfg_wait"
    /\ LET p         == msg.payload
           cfg       == getConfig(storage)
           url       == buildUrl(cfg.backend, p.path, p)
           init      == IF "headers" \in DOMAIN p THEN p.headers ELSE <<>>
           jsonGiven == "json" \in DOMAIN p /\ p.json # Absent
           made      == {<<toLowerCase(init[i][1]), init[i][2]>> : i \in 1..Len(init)}
           typed     == IF jsonGiven /\ ~\E h \in made : h[1] = Str("content-type")
                        THEN HeadersSet(made, Str("Content-Type"), Str("application/json"))
                        ELSE made
           reqHeaders == IF Truthy(cfg.authToken)
                         THEN HeadersSet(typed, Str("X-Auth-Token"), cfg.authToken)
                         ELSE typed
           \* JSON.stringify of a string
           stringify(str) ==
               <<34>> \o Concat([i \in 1..Len(str) |->
                                    IF str[i] \in {34, 92} THEN <<92, str[i]>>
                                    ELSE <<str[i]>>]) \o <<34>>
       IN  IF \E i \in 1..Len(init) : ~HeaderNameOk(init[i][1])
           THEN \* new Headers(headers) throws
                /\ responses' = Append(responses, CatchResponse(
                       "TypeError: Failed to construct 'Headers': Invalid name"))
                /\ awaited' = awaited
                /\ pc' = "returned"
           ELSE /\ awaited' = [url     |-> url,
                               method  |-> IF "method" \in DOMAIN p
                                           THEN p.method ELSE "GET",
                               headers |-> reqHeaders,
                               body    |-> IF jsonGiven THEN stringify(p.json)
                                           ELSE Absent]
                /\ responses' = responses
                /\ pc' = "fetch_wait"
    /\ UNCHANGED <<contentVars, msg, storage, downloads, crcVars, escVars, docxVars, zipVars>>

\* fetch has resolved with res: line 280
FetchDone ==
    /\ pc = "fetch_wait"
    /\ \E res \in FetchResults : awaited' = res
    /\ pc' = "body_wait"
    /\ UNCHANGED <<contentVars, msg, storage, responses, downloads, crcVars, escVars, docxVars, zipVars>>

\* res.json() or res.text() has resolved: lines 286-295
BodyRead ==
    /\ pc = "body_wait"
    /\ LET res == awaited
           ct  == toLowerCase(IF Truthy(res.contentType) THEN res.contentType ELSE <<>>)
       IN  \E data \in IF includes(ct, Str("application/json"))
                       THEN {[id |-> 7], [error |-> "not found"]}
                       ELSE {<<>>, Str("<html>")} :
              responses' = Append(responses,
                                  [ok |-> res.ok, status |-> res.status, data |-> data])
    /\ pc' = "returned"
    /\ UNCHANGED <<contentVars, msg, storage, awaited, downloads, crcVars, escVars, docxVars, zipVars>>

\* an awaited operation has rejected: the catch clause, lines 346-348
AwaitThrows ==
    /\ pc \in {"set_wait", "cfg_wait", "fetch_wait", "body_wait"}
    /\ \E e \in Thrown : responses' = Append(responses, CatchResponse(e))
    /\ pc' = "returned"
    /\ UNCHANGED <<contentVars, msg, storage, awaited, downloads, crcVars, escVars, docxVars, zipVars>>

\* lines 299-315
DownloadBlobUrl ==
    /\ pc = "listen"
    /\ msg.type = "DOWNLOAD_BLOB_URL"
    /\ IF ~Truthy(msg.payload.url) \/ ~Truthy(msg.payload.filename)
       THEN /\ responses' = Append(responses,
                                   [ok |-> FALSE, error |-> "Missing url/filename"])
            /\ downloads' = downloads
            /\ pc' = "returned"
       ELSE IF ~IsString(msg.payload.url) \/ ~IsString(msg.payload.filename)
       THEN \* chrome.downloads.download throws: the catch clause
            /\ responses' = Append(responses, CatchResponse(
                   "TypeError: Error in invocation of downloads.download"))
            /\ downloads' = downloads
            /\ pc' = "returned"
       ELSE /\ downloads' = Append(downloads,
                                   [url      |-> msg.payload.url,
                                    filename |-> msg.payload.filename,
                                    saveAs   |-> ToBoolean(msg.payload.saveAs)])
            /\ responses' = responses
            /\ pc' = "dl_wait"
    /\ UNCHANGED <<contentVars, msg, storage, awaited, crcVars, escVars, docxVars, zipVars>>

\* lines 318-343
DownloadCoverLetterDocx ==
    /\ pc = "listen"
    /\ msg.type = "CO_DOWNLOAD_COVER_LETTER_DOCX"
    /\ LET cl == CoverLetterText(msg.payload.text)
       IN  IF cl = <<>>
           THEN /\ responses' = Append(responses,
                                       [ok |-> FALSE, error |-> "Empty cover letter text"])
                /\ pc' = "returned"
                /\ UNCHANGED <<text, out, downloads>>
           ELSE LET docxBytes == coverLetterToDocxBytes(cl)
                    b64       == uint8ToBase64(docxBytes)
                    dataUrl   == Str("data:") \o DocxMime \o Str(";base64,") \o b64
                    safeName  == sanitizeFilename(
                                    IF Truthy(msg.payload.filename)
                                    THEN msg.payload.filename ELSE DefaultFilename)
                IN  /\ text' = cl
                    /\ out' = docxBytes
                    /\ downloads' = Append(downloads,
                                           [url      |-> dataUrl,
                                            filename |-> safeName,
                                            saveAs   |-> ToBoolean(msg.payload.saveAs)])
                    /\ responses' = responses
                    /\ pc' = "dl_wait"
    /\ UNCHANGED <<contentVars, msg, storage, awaited, docXml, fileEntries, zipIdx, zipSt, crcVars, escVars>>

\* the callback of chrome.downloads.download, chrome.runtime.lastError unset
DownloadStarted ==
    /\ pc = "dl_wait"
    /\ \E downloadId \in DownloadIds :
          responses' = Append(responses, [ok |-> TRUE, downloadId |-> downloadId])
    /\ pc' = "returned"
    /\ UNCHANGED <<contentVars, msg, storage, awaited, downloads, crcVars, escVars, docxVars, zipVars>>

\* the callback of chrome.downloads.download, chrome.runtime.lastError set
DownloadFailed ==
    /\ pc = "dl_wait"
    /\ \E message \in LastErrors :
          responses' = Append(responses, [ok |-> FALSE, error |-> message])
    /\ pc' = "returned"
    /\ UNCHANGED <<contentVars, msg, storage, awaited, downloads, crcVars, escVars, docxVars, zipVars>>

NextListener ==
    \/ IgnoreMessage
    \/ SetAuth
    \/ StorageSet
    \/ ApiProxy
    \/ ConfigRead
    \/ FetchDone
    \/ BodyRead
    \/ AwaitThrows
    \/ DownloadBlobUrl
    \/ DownloadCoverLetterDocx
    \/ DownloadStarted
    \/ DownloadFailed

----------------------------------------------------------------------------
(* The reference CRC-32: a 32-bit shift register, one message bit at a     *)
(* time, least significant bit first (reflected), for the IEEE 802.3       *)
(* generator x^32 + x^26 + x^23 + x^22 + x^16 + x^12 + x^11 + x^10 + x^8   *)
(* + x^7 + x^5 + x^4 + x^2 + x + 1.  A register is a function from the bit *)
(* positions 0..31 to {0, 1}.                                              *)

IeeeExponents == {0, 1, 2, 4, 5, 7, 8, 10, 11, 12, 16, 22, 23, 26}

\* reflected: the coefficient of x^e sits at bit 31 - e
RefPolyBits == {31 - e : e \in IeeeExponents}

RefAllOnes == [i \in 0..31 |-> 1]

RefShift(reg, inBit) ==
    LET feedback == (reg[0] + inBit) % 2
    IN  [i \in 0..31 |->
            LET shifted == IF i = 31 THEN 0 ELSE reg[i + 1]
            IN  IF feedback = 1 /\ i \in RefPolyBits THEN 1 - shifted ELSE shifted]

\* a register with every bit computed (comparing it enumerates it)
Computed(reg) == {g \in {reg} : g = RefAllOnes \/ TRUE}

\* the bits j..7 of byte b enter the register
RECURSIVE RefByte(_, _, _)
RefByte(reg, b, j) ==
    IF j = 8 THEN reg
    ELSE CHOOSE r \in { RefByte(g, b, j + 1) :
                           g \in Computed(RefShift(reg, (b \div 2^j) % 2)) } : TRUE

RECURSIVE RefBytes(_, _, _)
RefBytes(reg, bs, i) ==
    IF i > Len(bs) THEN reg
    ELSE CHOOSE r \in { RefBytes(g, bs, i + 1) : g \in {RefByte(reg, bs[i], 0)} } : TRUE

\* the value of the bits lo..lo+n-1 of a register
RECURSIVE RefBits(_, _, _)
RefBits(reg, lo, n) ==
    IF n = 0 THEN 0 ELSE reg[lo] + 2 * RefBits(reg, lo + 1, n - 1)

\* the register inverted, as a word
RefCrc32(bs) ==
    LET reg == RefBytes(RefAllOnes, bs, 1)
        inv == [i \in 0..31 |-> 1 - reg[i]]
    IN  <<RefBits(inv, 16, 16), RefBits(inv, 0, 16)>>

IsUint32(w) == w[1] \in 0..65535 /\ w[2] \in 0..65535

(* C8: crc32 is the reflected IEEE CRC-32 (generator 0xEDB88320, register   *)
(* preset to all ones, result inverted) of every byte sequence: the        *)
(* table-driven fold returns what the bit-by-bit shift register returns,   *)
(* the result is an unsigned 32-bit value, crc32 of the empty sequence is  *)
(* 0 and crc32 of the ASCII bytes "123456789" is 0xCBF43926.               *)
C8_Crc32IsIeee ==
    pc = "crc_done" =>
        /\ crcOut = RefCrc32(bytes)
        /\ IsUint32(crcOut)
        /\ (bytes = <<>> => crcOut = <<0, 0>>)
        /\ (bytes = CheckVector => crcOut = <<52212, 14630>>)     \* 0xCBF4 0x3926

\* crc32 has returned 0xCBF43926 for "123456789"
C8_Witness ==
    /\ pc = "crc_done"
    /\ bytes = CheckVector
    /\ crcOut = <<52212, 14630>>

----------------------------------------------------------------------------
(* Escaping one character at a time, and reading entities back             *)

Reserved == {Amp, Lt, Gt, Quot, Apos}

EntityOf(c) ==
    CASE c = Amp  -> Str("&amp;")
      [] c = Lt   -> Str("&lt;")
      [] c = Gt   -> Str("&gt;")
      [] c = Quot -> Str("&quot;")
      [] c = Apos -> Str("&apos;")
      [] OTHER    -> <<c>>

\* every reserved character replaced by its entity once, the others kept
EscapedOnce(s) == Concat([i \in 1..Len(s) |-> EntityOf(s[i])])

StartsAt(s, i, pat) ==
    /\ i + Len(pat) - 1 <= Len(s)
    /\ SubSeq(s, i, i + Len(pat) - 1) = pat

\* what an XML reader makes of s from position i on: each of the five
\* entities read as its character, any other code unit as itself
RECURSIVE Unescape(_, _)
Unescape(s, i) ==
    IF i > Len(s) THEN <<>>
    ELSE IF \E c \in Reserved : StartsAt(s, i, EntityOf(c))
         THEN LET c == CHOOSE d \in Reserved : StartsAt(s, i, EntityOf(d))
              IN  <<c>> \o Unescape(s, i + Len(EntityOf(c)))
         ELSE <<s[i]>> \o Unescape(s, i + 1)

(* C7: for every input string, xmlEscape replaces each of & < > " ' by its  *)
(* entity exactly once: the output is the input with each reserved         *)
(* character replaced by its entity and nothing else changed (so an entity *)
(* inserted for < > " ' is not re-escaped), it holds no raw < > " ', every *)
(* & in it starts one of the five entities, and reading the entities back  *)
(* gives the input.                                                        *)
C7_EscapeOnce ==
    pc = "esc_done" =>
        /\ escaped = EscapedOnce(escIn)
        /\ \A i \in 1..Len(escaped) : escaped[i] \notin {Lt, Gt, Quot, Apos}
        /\ \A i \in 1..Len(escaped) :
              escaped[i] = Amp => \E c \in Reserved : StartsAt(escaped, i, EntityOf(c))
        /\ Unescape(escaped, 1) = escIn

\* xmlEscape has escaped a string holding all five reserved characters
C7_Witness ==
    /\ pc = "esc_done"
    /\ escIn = Str("a<b>&\"c'")
    /\ escaped = Str("a&lt;b&gt;&amp;&quot;c&apos;")

----------------------------------------------------------------------------
(* Reading an archive: fields at byte positions (counted from 0), and the  *)
(* layout that the entries passed to makeZipStore call for                 *)

\* the byte at position p; 0 outside the buffer, so that reading is total
ByteAt(b, p) == IF p + 1 \in 1..Len(b) THEN b[p + 1] ELSE 0

RdU16(b, p) == ByteAt(b, p) + 256 * ByteAt(b, p + 1)

\* a 32-bit little-endian field as a word
RdWord(b, p) == <<RdU16(b, p + 2), RdU16(b, p)>>

\* a 32-bit little-endian field below 2^31 as a number
RdU32(b, p) == Val(RdWord(b, p))

\* the n bytes from position p on
Slice(b, p, n) == [i \in 1..n |-> ByteAt(b, p + i - 1)]

NameBytesOf(f) == encodeUtf8(f.name)

LocalRecordLen(f) == 30 + Len(NameBytesOf(f)) + Len(f.data)

CentralRecordLen(f) == 46 + Len(NameBytesOf(f))

\* the total length of the local records of the entries before entry i
RECURSIVE LocalRecordPos(_, _)
LocalRecordPos(fs, i) ==
    IF i <= 1 THEN 0 ELSE LocalRecordPos(fs, i - 1) + LocalRecordLen(fs[i - 1])

\* the total length of the central records of the entries before entry i
RECURSIVE CentralLenBefore(_, _)
CentralLenBefore(fs, i) ==
    IF i <= 1 THEN 0 ELSE CentralLenBefore(fs, i - 1) + CentralRecordLen(fs[i - 1])

\* where the central directory, entry i's central record, the EOCD begin
CentralDirPos(fs) == LocalRecordPos(fs, Len(fs) + 1)

CentralRecordPos(fs, i) == CentralDirPos(fs) + CentralLenBefore(fs, i)

EocdPos(b) == Len(b) - 22

\* entry i's local record lies at position p of b: signature, name, data
LocalRecordAt(b, p, f) ==
    /\ RdU32(b, p) = LocalSig
    /\ Slice(b, p + 30, Len(NameBytesOf(f))) = NameBytesOf(f)
    /\ Slice(b, p + 30 + Len(NameBytesOf(f)), Len(f.data)) = f.data

(* C1: for every list of entries passed to makeZipStore and every entry i,  *)
(* the local-header offset in entry i's central directory record (the      *)
(* field at +42) equals the position in the returned buffer at which entry *)
(* i's local file record begins, which is the sum of 30 + name byte length *)
(* + data length over the entries before i.                                *)
C1_CentralOffsets ==
    pc = "zip_done" =>
        \A i \in 1..Len(fileEntries) :
            LET c == CentralRecordPos(fileEntries, i)
                p == LocalRecordPos(fileEntries, i)
            IN  /\ RdU32(out, c) = CentralSig
                /\ RdU32(out, c + 42) = p
                /\ LocalRecordAt(out, p, fileEntries[i])

\* an archive whose second entry follows a record with a 5-byte name and 5
\* bytes of data, and so begins at 40
C1_Witness ==
    /\ pc = "zip_done"
    /\ Len(fileEntries) = 3
    /\ fileEntries[1] = [name |-> <<233, 8364>>, data |-> <<80, 75, 5, 6, 255>>]
    /\ RdU32(out, CentralRecordPos(fileEntries, 2) + 42) = 40
    /\ RdU32(out, 40) = LocalSig

(* C2: for every list of N entries passed to makeZipStore, the             *)
(* end-of-central-directory record (the last 22 bytes) carries N in both   *)
(* entry-count fields, the total length of the central directory records   *)
(* (46 + name byte length each) as the central-directory length, and the   *)
(* position of the first central directory record (the total length of the *)
(* local file records) as the central-directory start.                     *)
C2_Eocd ==
    pc = "zip_done" =>
        LET e == EocdPos(out)
            n == Len(fileEntries)
        IN  /\ RdU32(out, e) = EocdSig
            /\ RdU16(out, e + 8) = n
            /\ RdU16(out, e + 10) = n
            /\ RdU32(out, e + 12) = CentralLenBefore(fileEntries, n + 1)
            /\ RdU32(out, e + 16) = CentralDirPos(fileEntries)
            /\ e = CentralDirPos(fileEntries) + CentralLenBefore(fileEntries, n + 1)
            /\ n > 0 => RdU32(out, RdU32(out, e + 16)) = CentralSig

\* an archive of three entries, names of 1 and 5 bytes among them
C2_Witness ==
    /\ pc = "zip_done"
    /\ Len(fileEntries) = 3
    /\ fileEntries[1].name = <<97>>
    /\ fileEntries[2].name = <<233, 8364>>
    /\ RdU16(out, EocdPos(out) + 8) = 3
    /\ RdU32(out, EocdPos(out) + 12) > 3 * 46

----------------------------------------------------------------------------
(* Parsing an archive as a reader of stored-method ZIP files does          *)

\* the positions at which an EOCD record may stand: its signature there and
\* its comment ending the buffer
EocdCandidates(b) ==
    { p \in 0..(Len(b) - 22) :
        /\ ByteAt(b, p) = 80 /\ ByteAt(b, p + 1) = 75
        /\ ByteAt(b, p + 2) = 5 /\ ByteAt(b, p + 3) = 6
        /\ p + 22 + RdU16(b, p + 20) = Len(b) }

\* the last of them, as a reader scanning backwards finds it
LocateEocd(b) ==
    CHOOSE p \in EocdCandidates(b) : \A q \in EocdCandidates(b) : q <= p

\* the entry whose local record begins at position p
ReadLocalRecord(b, p) ==
    LET nameLen  == RdU16(b, p + 26)
        extraLen == RdU16(b, p + 28)
        size     == RdU32(b, p + 18)
    IN  [ name |-> Slice(b, p + 30, nameLen),
          data |-> Slice(b, p + 30 + nameLen + extraLen, size) ]

\* the entries of the n central records from position p on
RECURSIVE ReadCentralDir(_, _, _)
ReadCentralDir(b, p, n) ==
    IF n = 0 \/ p + 46 > Len(b) THEN <<>>
    ELSE LET nameLen    == RdU16(b, p + 28)
             extraLen   == RdU16(b, p + 30)
             commentLen == RdU16(b, p + 32)
         IN  <<ReadLocalRecord(b, RdU32(b, p + 42))>>
             \o ReadCentralDir(b, p + 46 + nameLen + extraLen + commentLen, n - 1)

\* what no archive parses to
NotAnArchive == <<[name |-> <<-1>>, data |-> <<-1>>]>>

ParseZip(b) ==
    IF EocdCandidates(b) = {} THEN NotAnArchive
    ELSE LET e == LocateEocd(b)
         IN  ReadCentralDir(b, RdU32(b, e + 16), RdU16(b, e + 10))

\* the entries as a reader sees them: name bytes and data bytes
AsStored(fs) ==
    [i \in 1..Len(fs) |-> [name |-> NameBytesOf(fs[i]), data |-> fs[i].data]]

(* C3: round trip.  For any ordered list of named entries, parsing the      *)
(* buffer that makeZipStore returns as a stored-method ZIP (locate the     *)
(* EOCD, walk the central directory, follow each recorded offset to its    *)
(* local record, read the name length and the size) recovers the same      *)
(* sequence of name bytes and data bytes, in the same order, also when     *)
(* entries have empty data and when the list is empty.                     *)
C3_RoundTrip ==
    pc = "zip_done" => ParseZip(out) = AsStored(fileEntries)

\* an archive of three entries read back, one of them without data and one
\* whose data holds an EOCD signature
C3_Witness ==
    /\ pc = "zip_done"
    /\ Len(fileEntries) = 3
    /\ fileEntries[2].data = <<>>
    /\ fileEntries[3].data = <<80, 75, 5, 6, 255>>
    /\ Len(ParseZip(out)) = 3
    /\ ParseZip(out)[3].data = <<80, 75, 5, 6, 255>>

(* C9: for every entry emitted by makeZipStore, the local file header has   *)
(* compression method 0 and its compressed-size and uncompressed-size      *)
(* fields both equal the length of the entry's data; the entry's central   *)
(* directory record carries the same CRC-32, the same two sizes, the same  *)
(* name length and the same name bytes as its local record.                *)
C9_StoredAndDuplicated ==
    pc = "zip_done" =>
        \A i \in 1..Len(fileEntries) :
            LET p == LocalRecordPos(fileEntries, i)
                c == CentralRecordPos(fileEntries, i)
                n == Len(NameBytesOf(fileEntries[i]))
            IN  /\ RdU16(out, p + 8) = 0
                /\ RdU32(out, p + 18) = Len(fileEntries[i].data)
                /\ RdU32(out, p + 22) = Len(fileEntries[i].data)
                /\ RdWord(out, c + 16) = RdWord(out, p + 14)
                /\ RdU32(out, c + 20) = RdU32(out, p + 18)
                /\ RdU32(out, c + 24) = RdU32(out, p + 22)
                /\ RdU16(out, c + 28) = RdU16(out, p + 26)
                /\ Slice(out, c + 46, n) = Slice(out, p + 30, n)
                /\ Slice(out, p + 30, n) = NameBytesOf(fileEntries[i])

\* an archive whose first entry has 5 bytes of data, a 5-byte name and a
\* CRC-32 that is not 0
C9_Witness ==
    /\ pc = "zip_done"
    /\ Len(fileEntries) = 2
    /\ fileEntries[1] = [name |-> <<233, 8364>>, data |-> <<80, 75, 5, 6, 255>>]
    /\ RdU32(out, 18) = 5
    /\ RdU16(out, 26) = 5
    /\ RdWord(out, 14) # <<0, 0>>
    /\ RdWord(out, CentralRecordPos(fileEntries, 1) + 16) = RdWord(out, 14)

----------------------------------------------------------------------------
(* Values that do not fit their fields                                     *)

\* the name length of entry f fits its 16-bit field
NameFits(f) == Len(NameBytesOf(f)) < NameLimit

(* C4: when a name length does not fit its 16-bit field (likewise a size   *)
(* or an offset its 32-bit field, the entry count its 16-bit field),       *)
(* makeZipStore fails and returns no archive, rather than emitting a       *)
(* record whose field holds the value truncated: the call returns a buffer *)
(* only when every name length fits.                                       *)
C4_OverflowFails ==
    pc = "zip_done" => \A i \in 1..Len(fileEntries) : NameFits(fileEntries[i])

----------------------------------------------------------------------------
(* The lines of a text and the paragraph elements of a document body       *)

\* the k-th smallest member of a set of numbers
Kth(S, k) == CHOOSE i \in S : Cardinality({j \in S : j <= i}) = k

\* the text with every CR that an LF follows left out
CrLfAsLf(t) ==
    LET kept == {i \in 1..Len(t) : ~(t[i] = CR /\ i < Len(t) /\ t[i + 1] = LF)}
    IN  [k \in 1..Cardinality(kept) |-> t[Kth(kept, k)]]

LfCount(t) == Cardinality({i \in 1..Len(t) : t[i] = LF})

\* line k of a text without CRLF pairs: what lies between LF k-1 and LF k
LineOf(t, k) ==
    LET breaks == {i \in 1..Len(t) : t[i] = LF}
        from   == IF k = 1 THEN 1 ELSE Kth(breaks, k - 1) + 1
        to     == IF k > Cardinality(breaks) THEN Len(t) ELSE Kth(breaks, k) - 1
    IN  [i \in 1..(to - from + 1) |-> t[from + i - 1]]

IsBlank(line) == \A i \in 1..Len(line) : IsWhiteSpace(line[i])

\* where paragraph elements begin in a document
ParaStarts(xml) == {i \in 1..Len(xml) : StartsAt(xml, i, Str("<w:p>"))}

\* the text content of paragraph k: from the end of its <w:t ...> tag to
\* the next </w:t>
ParaText(xml, k) ==
    LET from == Kth(ParaStarts(xml), k) + Len(ParaOpen)
        to   == CHOOSE j \in from..Len(xml) :
                    /\ StartsAt(xml, j, Str("</w:t>"))
                    /\ \A h \in from..(j - 1) : ~StartsAt(xml, h, Str("</w:t>"))
    IN  [i \in 1..(to - from) |-> xml[from + i - 1]]

(* C6: for every input text, the document body that                        *)
(* coverLetterToDocxBytes produces holds exactly one paragraph element per *)
(* line of the text, in line order, the lines being those of the text with *)
(* each CRLF pair replaced by LF and split on LF: a text with k LF has k+1 *)
(* paragraphs, the paragraph of an empty or all-whitespace line has empty  *)
(* text, the paragraph of any other line holds that line, escaped.         *)
C6_ParagraphPerLine ==
    pc \in {"zip_loop", "zip_done"} =>
        LET t == CrLfAsLf(TextOrEmpty(text))
        IN  /\ Cardinality(ParaStarts(docXml)) = LfCount(TextOrEmpty(text)) + 1
            /\ \A k \in 1..(LfCount(t) + 1) :
                  /\ StartsAt(docXml, Kth(ParaStarts(docXml), k), ParaOpen)
                  /\ IF IsBlank(LineOf(t, k))
                     THEN ParaText(docXml, k) = <<>>
                     ELSE /\ ParaText(docXml, k) = EscapedOnce(LineOf(t, k))
                          /\ Unescape(ParaText(docXml, k), 1) = LineOf(t, k)

\* the body built for "Hello", an empty line, "World": three paragraphs,
\* the second one empty
C6_Witness ==
    /\ pc = "zip_loop"
    /\ text = Str("Hello\n\nWorld")
    /\ Cardinality(ParaStarts(docXml)) = 3
    /\ ParaText(docXml, 1) = Str("Hello")
    /\ ParaText(docXml, 2) = <<>>
    /\ ParaText(docXml, 3) = Str("World")

(* C10: for every text, coverLetterToDocxBytes passes exactly three entries *)
(* to makeZipStore, in the order [Content_Types].xml, _rels/.rels,         *)
(* word/document.xml; the first two entries are the same bytes whatever    *)
(* the text is, the third is the encoding of the document built from the   *)
(* text; and the archive returned holds these three entries in this order. *)
C10_ThreeEntries ==
    /\ pc \in {"zip_loop", "zip_done"} =>
          /\ Len(fileEntries) = 3
          /\ fileEntries[1] = [name |-> Str("[Content_Types].xml"),
                               data |-> encodeUtf8(contentTypesXml)]
          /\ fileEntries[2] = [name |-> Str("_rels/.rels"),
                               data |-> encodeUtf8(relsXml)]
          /\ fileEntries[3].name = Str("word/document.xml")
          /\ fileEntries[3].data = encodeUtf8(docXml)
    /\ pc = "zip_done" =>
          /\ Len(ParseZip(out)) = 3
          /\ ParseZip(out)[1].name = Str("[Content_Types].xml")
          /\ ParseZip(out)[2].name = Str("_rels/.rels")
          /\ ParseZip(out)[3].name = Str("word/document.xml")

\* the archive returned for a letter with reserved characters: three
\* entries, the body with the entities in it
C10_Witness ==
    /\ pc = "zip_done"
    /\ text = Str("R&D <caf") \o <<233>> \o Str(">") \o <<CR, LF>> \o Str(" \n")
    /\ Len(ParseZip(out)) = 3
    /\ ParseZip(out)[3].data =
          encodeUtf8(DocHead
                     \o ParaOpen \o Str("R&amp;D &lt;caf") \o <<233>> \o Str("&gt;") \o ParaClose
                     \o ParaOpen \o ParaClose
                     \o ParaOpen \o ParaClose
                     \o DocTail)

----------------------------------------------------------------------------
(* The listener alone, and the encoder called by the listener or directly  *)

SpecListener == InitListener /\ [][NextListener]_vars

\* the listener leaves the position it is at; every step of NextListener is
\* such a step, and at every position but "returned" one of them can be taken
ListenerMoves ==
    /\ pc # "returned"
    /\ pc' \in {"set_wait", "cfg_wait", "fetch_wait", "body_wait", "dl_wait", "returned"}
    /\ pc' # pc

\* the listener runs when a message arrives, every awaited operation settles
\* and every download callback is invoked: the listener does not stay at
\* "listen" or at a wait for ever
SpecListenerFair == SpecListener /\ WF_pc(ListenerMoves)

InitEncoder == InitDocx \/ InitListener

NextEncoder == NextDocx \/ NextListener

SpecEncoder == InitEncoder /\ [][NextEncoder]_vars

----------------------------------------------------------------------------
(* Text that is absent, empty or only white space                          *)

BlankText(t) == t = Absent \/ \A i \in 1..Len(t) : IsWhiteSpace(t[i])

EmptyTextResponse == [ok |-> FALSE, error |-> "Empty cover letter text"]

\* the listener has run for a CO_DOWNLOAD_COVER_LETTER_DOCX message
LetterHandled ==
    /\ pc \in {"dl_wait", "returned"}
    /\ msg.type = "CO_DOWNLOAD_COVER_LETTER_DOCX"

\* the operation given blank text: the error response, nothing else
OperationRejectsBlank ==
    LetterHandled /\ BlankText(msg.payload.text) =>
        /\ pc = "returned"
        /\ responses = <<EmptyTextResponse>>
        /\ downloads = <<>>
        /\ text = NotCalled
        /\ out = NotCalled

\* coverLetterToDocxBytes called directly is at work on its text
EncoderAtWork == pc \in {"zip_loop", "zip_done"}

(* C5 as stated: the encoder, both coverLetterToDocxBytes and the           *)
(* CO_DOWNLOAD_COVER_LETTER_DOCX operation around it, given text that is   *)
(* absent, empty or only white space, signals an error before any encoding *)
(* work begins: no archive is produced, no download is started.            *)
C5_EncoderRejectsBlank ==
    /\ OperationRejectsBlank
    /\ EncoderAtWork => ~BlankText(text)

(* C5 as amended: the CO_DOWNLOAD_COVER_LETTER_DOCX operation, given text   *)
(* that is absent, empty or only white space, answers                      *)
(* {ok: false, error: "Empty cover letter text"} before any encoding work  *)
(* begins: coverLetterToDocxBytes is not called, no archive is produced    *)
(* and no download is started, and the operation passes only trimmed,      *)
(* non-empty text on.  coverLetterToDocxBytes makes no such check: called  *)
(* with such text it returns an archive of three entries whose document    *)
(* has one empty paragraph for each line.                                  *)
C5_OperationRejectsBlank ==
    /\ OperationRejectsBlank
    /\ LetterHandled /\ ~BlankText(msg.payload.text) =>
          /\ text = CoverLetterText(msg.payload.text)
          /\ ~BlankText(text)
          /\ Len(downloads) = 1
    /\ pc = "zip_done" /\ BlankText(text) =>
          /\ Len(ParseZip(out)) = 3
          /\ \A k \in 1..Cardinality(ParaStarts(docXml)) : ParaText(docXml, k) = <<>>

\* the operation has answered a letter of white space only with the error
C5_Witness ==
    /\ pc = "returned"
    /\ msg.type = "CO_DOWNLOAD_COVER_LETTER_DOCX"
    /\ msg.payload.text = <<32, LF, 9, CR, LF>>
    /\ responses = <<EmptyTextResponse>>
    /\ downloads = <<>>
    /\ out = NotCalled

----------------------------------------------------------------------------
(* Reading the document back out of an archive                             *)

\* the UTF-16 code units of the character whose UTF-8 bytes begin at b[i];
\* nothing for a continuation byte
DecodeAt(b, i) ==
    LET c    == b[i]
        t(j) == b[i + j] - 128
    IN  IF c < 128 THEN <<c>>
        ELSE IF c < 192 THEN <<>>
        ELSE IF c < 224 THEN <<(c - 192) * 64 + t(1)>>
        ELSE IF c < 240 THEN <<(c - 224) * 4096 + t(1) * 64 + t(2)>>
        ELSE LET v == (c - 240) * 262144 + t(1) * 4096 + t(2) * 64 + t(3) - 65536
             IN  <<55296 + (v \div 1024), 56320 + (v % 1024)>>

decodeUtf8(b) == Concat([i \in 1..Len(b) |-> DecodeAt(b, i)])

\* the text of the word/document.xml entry of an archive
DocumentOf(b) ==
    LET es == ParseZip(b)
        k  == CHOOSE j \in 1..Len(es) : es[j].name = Str("word/document.xml")
    IN  decodeUtf8(es[k].data)

\* the text contents of the paragraphs of a document, entities read back
ParagraphTexts(xml) ==
    [k \in 1..Cardinality(ParaStarts(xml)) |-> Unescape(ParaText(xml, k), 1)]

\* the lines of a text: CRLF read as LF, split on LF
LinesOf(t) ==
    LET u == CrLfAsLf(t)
    IN  [k \in 1..(LfCount(u) + 1) |-> LineOf(u, k)]

\* a surrogate code unit without its partner
Unpaired(s, i) ==
    \/ IsHighSurrogate(s[i]) /\ ~(i < Len(s) /\ IsLowSurrogate(s[i + 1]))
    \/ IsLowSurrogate(s[i]) /\ ~(i > 1 /\ IsHighSurrogate(s[i - 1]))

\* what a line reads as once it has been through UTF-8: U+FFFD for each
\* unpaired surrogate
AsScalars(s) == [i \in 1..Len(s) |-> IF Unpaired(s, i) THEN 65533 ELSE s[i]]

\* an archive has been produced from the text: by a direct call of
\* coverLetterToDocxBytes, or by the CO_DOWNLOAD_COVER_LETTER_DOCX operation
Encoded ==
    \/ pc = "zip_done"
    \/ LetterHandled /\ out # NotCalled

(* C11 as stated: for every text accepted by the encoder, the paragraph     *)
(* text contents of the word/document.xml entry of the archive produced,   *)
(* entities read back, are exactly the lines of the text (CRLF read as LF, *)
(* split on LF), in order, blank lines included.                           *)
C11_ParagraphsAreLines ==
    Encoded /\ ~BlankText(text) =>
        ParagraphTexts(DocumentOf(out)) = LinesOf(TextOrEmpty(text))

(* C11 as amended: the archive produced holds one paragraph per line of the *)
(* text, in order; a line that is empty or only white space gives a        *)
(* paragraph of empty text, any other line gives a paragraph whose text,   *)
(* entities read back, is that line (an unpaired surrogate read as U+FFFD);*)
(* the text of the operation is the payload's text trimmed.                *)
C11_ParagraphsAreLinesUnlessBlank ==
    /\ Encoded =>
          LET lines == LinesOf(TextOrEmpty(text))
          IN  ParagraphTexts(DocumentOf(out)) =
                  [k \in 1..Len(lines) |->
                      IF IsBlank(lines[k]) THEN <<>> ELSE AsScalars(lines[k])]
    /\ LetterHandled /\ out # NotCalled => text = trim(TextOrEmpty(msg.payload.text))

\* the operation has encoded "a", a line of one space, "b": the second
\* paragraph is empty
C11_Witness ==
    /\ LetterHandled
    /\ msg.payload.text = Str("a\n \nb")
    /\ out # NotCalled
    /\ ParagraphTexts(DocumentOf(out)) = <<Str("a"), <<>>, Str("b")>>

----------------------------------------------------------------------------
(* The calls of sendResponse for one message                               *)

(* C12: every message whose type is CO_SET_AUTH, CO_API, DOWNLOAD_BLOB_URL  *)
(* or CO_DOWNLOAD_COVER_LETTER_DOCX eventually gets sendResponse called    *)
(* exactly once, never twice, on every path: success, a validation         *)
(* failure, an exception thrown by storage or fetch, the download callback *)
(* with or without lastError; each awaited operation settles and the       *)
(* download callback is invoked once.                                      *)
C12_RespondsOnce ==
    /\ [](Len(responses) <= 1)
    /\ (msg.type \in MessageTypes) ~> [](pc = "returned" /\ Len(responses) = 1)

\* a CO_API message whose fetch has rejected: the one response is that of
\* the catch clause
C12_Witness ==
    /\ pc = "returned"
    /\ msg.type = "CO_API"
    /\ IsString(msg.payload.path)
    /\ responses = <<CatchResponse("TypeError: Failed to fetch")>>

----------------------------------------------------------------------------
(* The content script's panel: src/content.js lines 62-295.  The document  *)
(* is the list of the children of <html>, each named by its id (the host   *)
(* page's own nodes by their tag).  The host page removes any child,       *)
(* appends nodes of its own and changes nodes further down; the observer   *)
(* (childList, subtree) is told of each, and its callback runs when the    *)
(* page's script has finished.                                             *)

PANEL_ID == "careeros-panel-root"
STYLE_ID == "careeros-panel-style"

MaxHostNodes == 4

getElementById(d, id) == \E i \in 1..Len(d) : d[i] = id

\* the document after ensureStyles()
ensureStyles(d) == IF getElementById(d, STYLE_ID) THEN d ELSE Append(d, STYLE_ID)

\* the document after mountPanel()
mountPanel(d) ==
    IF getElementById(d, PANEL_ID) THEN d ELSE Append(ensureStyles(d), PANEL_ID)

InitPage ==
    /\ pc = "page_load"
    /\ dom \in {<<"head", "body">>, <<"head", "body", "div">>}
    /\ pending = FALSE
    /\ history = None /\ adds = None
    /\ NoMessage
    /\ bytes = None /\ crcOut = None
    /\ escIn = None /\ escaped = None
    /\ text = None /\ docXml = None
    /\ fileEntries = None /\ zipIdx = None /\ zipSt = None /\ out = None

\* lines 286-295: the observer is set up, then the initial mountPanel()
ContentScriptRuns ==
    /\ pc = "page_load"
    /\ dom' = mountPanel(dom)
    /\ pending' = (dom' # dom)
    /\ pc' = "page_live"
    /\ UNCHANGED <<history, adds, crcVars, escVars, docxVars, zipVars, listenerVars>>

\* the host page appends a node of its own to <html>
HostAppends ==
    /\ pc \in {"page_load", "page_live"}
    /\ Cardinality({i \in 1..Len(dom) : dom[i] \notin {PANEL_ID, STYLE_ID}}) < MaxHostNodes
    /\ dom' = Append(dom, "div")
    /\ pending' = (pc = "page_live")
    /\ UNCHANGED <<pc, history, adds, crcVars, escVars, docxVars, zipVars, listenerVars>>

\* the host page removes a child of <html>: a node of its own, the style
\* element or the panel
HostRemoves ==
    /\ pc \in {"page_load", "page_live"}
    /\ \E i \in 1..Len(dom) :
          dom' = SubSeq(dom, 1, i - 1) \o SubSeq(dom, i + 1, Len(dom))
    /\ pending' = (pc = "page_live")
    /\ UNCHANGED <<pc, history, adds, crcVars, escVars, docxVars, zipVars, listenerVars>>

\* the host page, or the panel's own code, changes the children of a node
\* further down
SubtreeChanges ==
    /\ pc = "page_live"
    /\ pending' = TRUE
    /\ UNCHANGED <<pc, dom, history, adds, crcVars, escVars, docxVars, zipVars, listenerVars>>

\* the callback that does not mount
ObserverCallbackIdle ==
    /\ pc = "page_live"
    /\ pending
    /\ pending' = FALSE
    /\ UNCHANGED <<pc, dom, history, adds, crcVars, escVars, docxVars, zipVars, listenerVars>>

\* lines 286-290: the callback is invoked with the records gathered
ObserverCallback ==
    /\ pc = "page_live"
    /\ pending
    /\ dom' = IF ~getElementById(dom, PANEL_ID) THEN mountPanel(dom) ELSE dom
    /\ pending' = (dom' # dom)
    /\ UNCHANGED <<pc, history, adds, crcVars, escVars, docxVars, zipVars, listenerVars>>

NextPage ==
    \/ ContentScriptRuns
    \/ HostAppends
    \/ HostRemoves
    \/ SubtreeChanges
    \/ ObserverCallback

\* the callback is a microtask: it runs once the page's script has finished
SpecPage == InitPage /\ [][NextPage]_vars /\ WF_vars(ObserverCallback)

PanelCount == Cardinality({i \in 1..Len(dom) : dom[i] = PANEL_ID})

----------------------------------------------------------------------------
(* addToHistory: src/content.js lines 15-20.  A call runs to its await of  *)
(* chrome.storage.local.get; when the get has resolved it builds next and  *)
(* awaits chrome.storage.local.set; when the set has resolved the call is  *)
(* complete.  Calls made without awaiting one another take these steps in  *)
(* any order.                                                              *)

HistoryLimit == 50

MaxCalls == 3

\* call c adds the item c
Calls == 1..MaxCalls

\* n items stored before, none of them an item of Calls
OldItems(n) == [i \in 1..n |-> 100 + i]

InitHistory ==
    /\ pc = "history"
    /\ history \in {Absent, <<>>, OldItems(1), OldItems(HistoryLimit - 1),
                    OldItems(HistoryLimit)}
    /\ adds = [c \in Calls |-> [at |-> "idle", next |-> <<>>]]
    /\ dom = None /\ pending = None
    /\ NoMessage
    /\ bytes = None /\ crcOut = None
    /\ escIn = None /\ escaped = None
    /\ text = None /\ docXml = None
    /\ fileEntries = None /\ zipIdx = None /\ zipSt = None /\ out = None

\* lines 15-17: addToHistory(item) is called and awaits the get
HistoryCall ==
    /\ \E c \in Calls :
          /\ adds[c].at = "idle"
          /\ adds' = [adds EXCEPT ![c].at = "get_wait"]
    /\ UNCHANGED <<pc, dom, pending, history, crcVars, escVars, docxVars, zipVars,
                   listenerVars>>

\* lines 17-19: the get has resolved with what is stored; next is built
\* and the set is awaited
HistoryGet ==
    /\ \E c \in Calls :
          /\ adds[c].at = "get_wait"
          /\ LET existing == IF history = Absent THEN <<>> ELSE history
                 all      == <<c>> \o existing
                 next     == SubSeq(all, 1, IF Len(all) < HistoryLimit
                                            THEN Len(all) ELSE HistoryLimit)
             IN  adds' = [adds EXCEPT ![c] = [at |-> "set_wait", next |-> next]]
    /\ UNCHANGED <<pc, dom, pending, history, crcVars, escVars, docxVars, zipVars,
                   listenerVars>>

\* lines 19-20: the set has resolved, next is what is stored, the call is
\* complete
HistorySet ==
    /\ \E c \in Calls :
          /\ adds[c].at = "set_wait"
          /\ history' = adds[c].next
          /\ adds' = [adds EXCEPT ![c].at = "done"]
    /\ UNCHANGED <<pc, dom, pending, crcVars, escVars, docxVars, zipVars, listenerVars>>

NextHistory == HistoryCall \/ HistoryGet \/ HistorySet

SpecHistory == InitHistory /\ [][NextHistory]_vars

\* the calls made, and all of them complete
Made == {c \in Calls : adds[c].at # "idle"}

AllComplete == Made # {} /\ \A c \in Made : adds[c].at = "done"

Stored == IF history = Absent THEN <<>> ELSE history

(* C14: for any set of addToHistory calls, calls whose get and set steps   *)
(* interleave included, once all calls are complete the stored             *)
(* careeros_history has at most 50 items and holds every item that was     *)
(* added (fewer than 50 being added): no item is lost to another call's    *)
(* write.                                                                  *)
C14_NoItemLost ==
    AllComplete =>
        /\ Len(Stored) <= HistoryLimit
        /\ \A c \in Made : \E i \in 1..Len(Stored) : Stored[i] = c

\* two calls are complete, and the list stored holds the item of only one
C14_Witness ==
    /\ AllComplete
    /\ Made = {1, 2}
    /\ history = <<2>>

====
